---- MODULE Spec2Model ----
(***************************************************************************)
(* The Detik data source, database-sink revision (src/src/lib/detik.js     *)
(* lines 231-565): one DetikDataSource instance, the feed it polls and the *)
(* connection pool it writes to.                                           *)
(*                                                                         *)
(* JavaScript runs every callback to completion, so each action below is   *)
(* one whole callback, or one whole synchronous call made by the caller.   *)
(* What is in flight between callbacks is state: the page requests not yet *)
(* answered, the queries of _insertConfirmed not yet settled and the query *)
(* of _updateLastContributionIdFromDatabase.                               *)
(*                                                                         *)
(* Four specifications share the actions:                                  *)
(*   Spec        the instance under start() and _poll(), any feed;         *)
(*   SpecFilter  the 'end' callback applied to any instance state and any  *)
(*               result array, with the call's input and output recorded;  *)
(*   SpecFeed    _poll() cycles against a feed that does not change;       *)
(*   SpecSink    one 'end' callback and the pool settling its queries.     *)
(***************************************************************************)
EXTENDS Integers, Sequences, FiniteSets

\* ------------------------------------------------------------- bounds
MaxId == 2          \* contribution ids of the feed are 1..MaxId
MaxPageLen == 1     \* a page of the feed holds at most MaxPageLen items
MaxPage == 1        \* pages 1..MaxPage of the feed may hold items
MaxCycles == 2      \* poll cycles run on the instance
MaxLen == 2         \* length of the result array in SpecFilter

Ids == 1..MaxId

\* date.update.sec of an item, and the values new Date().getTime() takes (ms)
Secs == {0, 2}
Clocks == {1000, 2000}

\* location.geospatial.longitude / latitude; 0 is the "no geo" sentinel
Coords == {0, 1}

\* config.HISTORICAL_LOAD_PERIOD in ms; the empty set stands for a config
\* object without that key (undefined)
Periods == {{}, {0}, {1000}}

\* a feed item: contributionId, date.update.sec, location.geospatial
Items == [contributionId : Ids, sec : Secs, lon : Coords, lat : Coords]

\* result arrays with the coordinates still to be chosen.  The coordinates
\* of an item are read by _saveResult alone, so the callbacks choose them
\* for the items that reach _saveResult and leave the others at 0.
BareItems == {i \in Items : i.lon = 0 /\ i.lat = 0}
BareArrays(n) == UNION {[1..k -> BareItems] : k \in 1..n}

WithGeo(results, n, geos) ==
    [i \in 1..Len(results) |->
        IF i <= n THEN [results[i] EXCEPT !.lon = geos[i][1], !.lat = geos[i][2]]
                  ELSE results[i]]

\* feeds that do not change: newest first, ids strictly decreasing
Descending(s) == \A i \in 1..(Len(s) - 1) : s[i].contributionId > s[i + 1].contributionId
Feeds == {s \in UNION {[1..k -> Items] : k \in 1..MaxId} : Descending(s)}

VARIABLES
    lastId,      \* _lastContributionId
    highest,     \* _highestBatchContributionId
    period,      \* config.HISTORICAL_LOAD_PERIOD
    inflight,    \* page numbers of the https requests not yet answered
    cycle,       \* number of _poll calls so far
    dbq,         \* query of _updateLastContributionIdFromDatabase: none/sent/answered/done
    dbRows,      \* its result: <<>> (no rows) or <<contribution_id>>
    table,       \* contribution ids stored in TABLE_DETIK
    inserting,   \* ids whose INSERT (first query of _insertConfirmed) is in flight
    upserting,   \* ids whose upsert_users (second query) is in flight
    handedPrev,  \* ids handed to _processResult in earlier cycles
    handedCur,   \* ids handed to _processResult in the current cycle
    commits,     \* calls of _updateLastContributionIdFromBatch in the current cycle
    endKind,     \* how the last answered request ended
    asked,       \* page numbers requested in the current cycle, in order
    filterCalls, \* calls of _filterResults in the current cycle
    committed,   \* value the last commit of the current cycle left in _lastContributionId, -1: none yet
    handlerPc,   \* the lambda handler: idle / threw
    report,      \* SpecNormalize: the detikReport object of _insertConfirmed
    callbackArgs,\* arguments the handler's callback was invoked with, in order
    startPolls,  \* calls of _poll made by start(), at once or from a timer it set
    feed,        \* SpecFeed: the items the feed serves, newest first
    fIn,         \* SpecFilter: argument of the last _filterResults call
    fOut         \* SpecFilter: what that call did

vars == <<lastId, highest, period, inflight, cycle, dbq, dbRows, table, inserting,
          upserting, handedPrev, handedCur, commits, endKind, asked, filterCalls, committed, handlerPc, report, callbackArgs,
          startPolls, feed, fIn, fOut>>

Max(a, b) == IF a < b THEN b ELSE a

RECURSIVE SetMax(_)
SetMax(S) == IF S = {} THEN 0
             ELSE LET x == CHOOSE y \in S : TRUE IN Max(x, SetMax(S \ {x}))

IdsOf(s) == {s[i].contributionId : i \in 1..Len(s)}

\* ---------------------------------------------------- _filterResults

\* the default configuration object (config.js:4-15) when the environment
\* supplies no period: the key is spelt HISTORICA_LOAD_PERIOD, its value the
\* default 3,600,000 ms, here 1000 on the scale of Clocks
DefaultConfig == [HISTORICA_LOAD_PERIOD |-> 1000]

\* self.config.HISTORICAL_LOAD_PERIOD as _filterResults reads it (398): the
\* value under that key, undefined (the empty set) when the key is missing
ConfigPeriod(config) ==
    IF "HISTORICAL_LOAD_PERIOD" \in DOMAIN config
    THEN {config.HISTORICAL_LOAD_PERIOD}
    ELSE {}

\* the comparison of 397 turned round
TooOldInverted(result, now, cfg) == \E p \in cfg : result.sec * 1000 > now - p

\* detik.js:397-398: result.date.update.sec * 1000 < new Date().getTime() -
\* self.config.HISTORICAL_LOAD_PERIOD; with the key undefined the right side
\* is NaN and the comparison is false
TooOld(result, now, cfg) == \E p \in cfg : result.sec * 1000 < now - p

\* the comparison of 390 made strict
SeenBeforeStrict(result, last) == result.contributionId < last

\* detik.js:390
SeenBefore(result, last) == result.contributionId <= last

\* 412-415 without the comparison
RetainLast(hb, result) == result.contributionId

\* detik.js:412-415
Retain(hb, result) ==
    IF hb < result.contributionId THEN result.contributionId ELSE hb

\* 388 and 419 taking two items off the array
ShiftedTwice(results) == IF Len(results) >= 2 THEN Tail(Tail(results)) ELSE <<>>

\* detik.js:388, 419: what results.shift() leaves in the caller's array
Shifted(results) == Tail(results)

\* the while loop of _filterResults (388-419): shift the head, stop on the
\* first seen-before or too-old item, otherwise retain the id and hand the
\* item to _processResult
RECURSIVE FilterLoop(_, _, _, _, _, _)
FilterLoop(results, last, hb, now, cfg, handed) ==
    IF results = <<>>
    THEN [cont |-> TRUE, highest |-> hb, handed |-> handed, rest |-> <<>>]
    ELSE LET result == Head(results)
             rest   == Shifted(results)
         IN  IF SeenBefore(result, last)
             THEN [cont |-> FALSE, highest |-> hb, handed |-> handed, rest |-> rest]
             ELSE IF TooOld(result, now, cfg)
             THEN [cont |-> FALSE, highest |-> hb, handed |-> handed, rest |-> rest]
             ELSE FilterLoop(rest, last, Retain(hb, result), now, cfg,
                             Append(handed, result))

\* _updateLastContributionIdFromBatch (301-307): the new _lastContributionId
UpdateLastContributionIdFromBatch(last, hb) == IF last < hb THEN hb ELSE last

\* _filterResults (382-426): the loop, then the commit when it stopped
FilterResults(results, last, hb, now, cfg) ==
    LET r == FilterLoop(results, last, hb, now, cfg, <<>>)
    IN  [ret      |-> r.cont,
         handed   |-> r.handed,
         rest     |-> r.rest,
         highest  |-> r.highest,
         lastId   |-> IF r.cont THEN last
                      ELSE UpdateLastContributionIdFromBatch(last, r.highest),
         commits  |-> IF r.cont THEN 0 ELSE 1,
         last0    |-> last,
         highest0 |-> hb,
         now      |-> now]

\* 449-450 without the test
HasGeoAlways(result) == TRUE

\* _saveResult (444-453): the test that lets an item through to _insertConfirmed
HasGeo(result) == result.lon # 0 /\ result.lat # 0

\* _processResult / _saveResult over the handed items: the ids for which
\* _insertConfirmed sends its INSERT (433-453, 461-507)
Dispatched(handed) ==
    {handed[i].contributionId : i \in {j \in 1..Len(handed) : HasGeo(handed[j])}}

\* 318 left out
DefaultPageKeep(page) == page

\* detik.js:318: if (!page) page = 1; a call without the argument is page 0
DefaultPage(page) == IF page = 0 THEN 1 ELSE page

\* 359 counting twice, and not counting
NextPageSkip(p) == p + 2
NextPageSame(p) == p

\* detik.js:359: page++
NextPage(p) == p + 1

NoCall == [called |-> FALSE]

\* no detikReport object under observation
NoReport == [applied |-> 0]

\* ----------------------------------------- _insertConfirmed, 463-478
\* A string is a sequence of characters: "q" is the single quote, "x" any
\* other character.  A property that is undefined or null is the one-element
\* sequence <<"undefined">> or <<"null">>.

MaxUrlLen == 4

Chars == {"q", "x"}

RECURSIVE StringsUpTo(_)
StringsUpTo(n) ==
    IF n = 0 THEN {<<>>}
    ELSE LET shorter == StringsUpTo(n - 1)
         IN  shorter \cup {Append(t, c) : t \in {u \in shorter : Len(u) = n - 1}, c \in Chars}

Strings == StringsUpTo(MaxUrlLen)

Undefined == <<"undefined">>
Null == <<"null">>

\* the positions where the two-character pattern '' starts in s
Occurrences(s) == {i \in 1..(Len(s) - 1) : s[i] = "q" /\ s[i + 1] = "q"}

\* s.replace('\'\'', '') (467-468, 475): a string pattern, so only the first
\* occurrence of '' is replaced, by the empty string
Replace(s) ==
    IF Occurrences(s) = {} THEN s
    ELSE LET i == CHOOSE j \in Occurrences(s) : \A k \in Occurrences(s) : j <= k
         IN  SubSeq(s, 1, i - 1) \o SubSeq(s, i + 2, Len(s))

\* !detikReport.files.photo (464): undefined, null and '' are falsy
Falsy(v) == v \in {Undefined, Null, <<>>}

\* detik.js:471: detikReport.lang = 'id'
StampedLang(r) == "id"

\* _insertConfirmed 463-478 (the same statements as _postConfirmed 181-193):
\* the object after the normalization
Normalized(r) ==
    [r EXCEPT !.photo = IF Falsy(r.photo) THEN Null ELSE Replace(r.photo),
              !.lang = StampedLang(r),
              !.url = Replace(r.url),
              !.disaster_type = "flood"]

\* the detikReport objects handed to _insertConfirmed: items that passed
\* _saveResult, so with coordinates, as the feed gives them
Reports ==
    [contributionId : Ids, createSec : {2}, updateSec : {2}, lon : {1}, lat : {1},
     title : {<<"x">>}, content : {<<"x", "q">>}, creator : {<<"x">>},
     photo : {Undefined} \cup Strings, url : Strings,
     lang : {"none", "en"}, disaster_type : {"none"}]

\* ------------------------------------------------------------ actions

Init ==
    /\ lastId = 0
    /\ highest = 0
    /\ period = {1000}
    /\ inflight = {}
    /\ cycle = 0
    /\ dbq = "none"
    /\ dbRows = <<>>
    /\ table \in {{}} \cup {{i} : i \in Ids}
    /\ inserting = {}
    /\ upserting = {}
    /\ handedPrev = {}
    /\ handedCur = {}
    /\ commits = 0
    /\ endKind = "none"
    /\ asked = <<>>
    /\ filterCalls = 0
    /\ committed = -1
    /\ handlerPc = "idle"
    /\ report = NoReport
    /\ callbackArgs = <<>>
    /\ startPolls = 0
    /\ feed = <<>>
    /\ fIn = <<>>
    /\ fOut = NoCall

\* _poll (286-295) with _fetchResults up to req.end() (315-326, 373)
PollBody ==
    /\ highest' = lastId
    /\ inflight' = {DefaultPage(0)}
    /\ cycle' = cycle + 1
    /\ handedPrev' = handedPrev \cup handedCur
    /\ handedCur' = {}
    /\ commits' = 0
    /\ endKind' = "none"
    /\ asked' = <<DefaultPage(0)>>
    /\ filterCalls' = 0
    /\ committed' = -1

\* start (544-559) has no return statement
StartReturns == "undefined"

\* the lambda handler (functions/detik/index.js:5-17) after start():
\* .then() on undefined throws a TypeError out of the handler; on a promise
\* the handler would wait for it to settle
Handler(started) == IF started = "undefined" THEN "threw" ELSE "waiting"

\* 544-559 without the call of poll at 558
StartWithoutPoll ==
    /\ cycle = 0
    /\ dbq = "none"
    /\ dbq' = "sent"
    /\ handlerPc' = Handler(StartReturns)
    /\ UNCHANGED <<lastId, highest, period, inflight, cycle, dbRows, table,
                   inserting, upserting, handedPrev, handedCur, commits, endKind,
                   asked, filterCalls, committed, callbackArgs, startPolls, feed,
                   fIn, fOut, report>>

\* start (544-559) on a new instance, called by the handler: send the
\* database query, do not wait for it, poll
Start ==
    /\ cycle = 0
    /\ dbq = "none"
    /\ dbq' = "sent"
    /\ PollBody
    /\ handlerPc' = Handler(StartReturns)
    /\ startPolls' = startPolls + 1
    /\ UNCHANGED <<lastId, period, dbRows, table, inserting, upserting, feed, fIn, fOut,
                   callbackArgs, report>>

\* _poll called (again) while no page request is outstanding
Poll ==
    /\ inflight = {}
    /\ cycle < MaxCycles
    /\ PollBody
    /\ UNCHANGED <<lastId, period, dbq, dbRows, table, inserting, upserting, feed,
                   fIn, fOut,
                   callbackArgs, handlerPc, report, startPolls>>

\* a callback of _fetchResults that ends the cycle with the commit
EndCycle(p, kind) ==
    /\ p \in inflight
    /\ inflight' = inflight \ {p}
    /\ lastId' = UpdateLastContributionIdFromBatch(lastId, highest)
    /\ commits' = commits + 1
    /\ committed' = lastId'
    /\ endKind' = kind
    /\ UNCHANGED <<highest, period, cycle, dbq, dbRows, table, inserting, upserting,
                   handedPrev, handedCur, asked, feed, fIn, fOut,
                   callbackArgs, handlerPc, report, filterCalls, startPolls>>

\* 370 left out: the handler only logs
RequestErrorSilent(p) ==
    /\ p \in inflight
    /\ inflight' = inflight \ {p}
    /\ endKind' = "error"
    /\ UNCHANGED <<lastId, highest, period, cycle, dbq, dbRows, table, inserting,
                   upserting, handedPrev, handedCur, commits, asked, filterCalls,
                   committed, handlerPc, report, callbackArgs, feed, fIn, fOut, startPolls>>

\* req.on('error') (366-371)
RequestError(p) == EndCycle(p, "error")

\* 340 left out: the catch only logs
EndInvalidJsonSilent(p) ==
    /\ p \in inflight
    /\ inflight' = inflight \ {p}
    /\ endKind' = "invalid"
    /\ UNCHANGED <<lastId, highest, period, cycle, dbq, dbRows, table, inserting,
                   upserting, handedPrev, handedCur, commits, asked, filterCalls,
                   committed, handlerPc, report, callbackArgs, feed, fIn, fOut, startPolls>>

\* res.on('end') with a body JSON.parse rejects (333-342)
EndInvalidJson(p) == EndCycle(p, "invalid")

\* 352 left out: the branch only logs
EndNoResultsSilent(p) ==
    /\ p \in inflight
    /\ inflight' = inflight \ {p}
    /\ endKind' = "empty"
    /\ UNCHANGED <<lastId, highest, period, cycle, dbq, dbRows, table, inserting,
                   upserting, handedPrev, handedCur, commits, asked, filterCalls,
                   committed, handlerPc, report, callbackArgs, feed, fIn, fOut, startPolls>>

\* res.on('end') with no result list or an empty one (347-353)
EndNoResults(p) == EndCycle(p, "empty")

\* 354-362 with a commit of its own after the call of _filterResults
EndFilteredCommitting(p, f) ==
    /\ lastId' = UpdateLastContributionIdFromBatch(f.lastId, f.highest)
    /\ highest' = f.highest
    /\ commits' = commits + f.commits + 1
    /\ handedCur' = handedCur \cup IdsOf(f.handed)
    /\ inserting' = inserting \cup Dispatched(f.handed)
    /\ inflight' = IF f.ret THEN (inflight \ {p}) \cup {NextPage(p)}
                            ELSE inflight \ {p}
    /\ endKind' = IF f.ret THEN "more" ELSE "stop"
    /\ asked' = IF f.ret THEN Append(asked, NextPage(p)) ELSE asked
    /\ filterCalls' = filterCalls + 1
    /\ committed' = UpdateLastContributionIdFromBatch(f.lastId, f.highest)
    /\ UNCHANGED <<period, cycle, dbq, dbRows, table, upserting, handedPrev, feed,
                   callbackArgs, handlerPc, report, startPolls>>

\* res.on('end') with a non-empty result list (354-362): f is what
\* _filterResults did with it
EndFiltered(p, f) ==
    /\ lastId' = f.lastId
    /\ highest' = f.highest
    /\ commits' = commits + f.commits
    /\ handedCur' = handedCur \cup IdsOf(f.handed)
    /\ inserting' = inserting \cup Dispatched(f.handed)
    /\ inflight' = IF f.ret THEN (inflight \ {p}) \cup {NextPage(p)}
                            ELSE inflight \ {p}
    /\ endKind' = IF f.ret THEN "more" ELSE "stop"
    /\ asked' = IF f.ret THEN Append(asked, NextPage(p)) ELSE asked
    /\ filterCalls' = filterCalls + 1
    /\ committed' = IF f.commits = 1 THEN f.lastId ELSE committed
    /\ UNCHANGED <<period, cycle, dbq, dbRows, table, upserting, handedPrev, feed,
                   callbackArgs, handlerPc, report, startPolls>>

\* the callback on any non-empty result array of at most n items
EndAny(p, n, record) ==
    \E bare \in BareArrays(n), now \in Clocks :
      \E k \in {Len(FilterLoop(bare, lastId, highest, now, period, <<>>).handed)} :
        \E geos \in [1..k -> Coords \X Coords] :
          \E results \in {WithGeo(bare, k, geos)} :
            \E f \in {FilterResults(results, lastId, highest, now, period)} :
              /\ EndFiltered(p, f)
              /\ IF record
                 THEN /\ fIn' = results
                      /\ fOut' = [called |-> TRUE, page |-> p, f |-> f]
                 ELSE UNCHANGED <<fIn, fOut>>

EndResults(p) ==
    /\ p \in inflight
    /\ p <= MaxPage
    /\ EndAny(p, MaxPageLen, FALSE)

\* _updateLastContributionIdFromDatabase called on its own, up to its await
\* (523-529): the query is sent
DbQuery ==
    /\ dbq = "none"
    /\ dbq' = "sent"
    /\ UNCHANGED <<lastId, highest, period, inflight, cycle, dbRows, table, inserting,
                   upserting, handedPrev, handedCur, commits, endKind, asked,
                   filterCalls, committed, handlerPc, report, callbackArgs, startPolls,
                   feed, fIn, fOut>>

\* the pool answers the query of _updateLastContributionIdFromDatabase (526-529)
DbAnswer ==
    /\ dbq = "sent"
    /\ dbq' = "answered"
    /\ dbRows' = IF table = {} THEN <<>> ELSE <<SetMax(table)>>
    /\ UNCHANGED <<lastId, highest, period, inflight, cycle, table, inserting,
                   upserting, handedPrev, handedCur, commits, endKind, asked, feed, fIn, fOut,
                   callbackArgs, handlerPc, report, filterCalls, committed, startPolls>>

\* 531-537 with the else branch resetting the id
DbDeliverReset ==
    /\ dbq = "answered"
    /\ dbq' = "done"
    /\ lastId' = IF dbRows # <<>> THEN dbRows[1] ELSE 0
    /\ UNCHANGED <<highest, period, inflight, cycle, dbRows, table, inserting,
                   upserting, handedPrev, handedCur, commits, endKind, asked,
                   filterCalls, committed, handlerPc, report, callbackArgs, startPolls,
                   feed, fIn, fOut>>

\* the rest of _updateLastContributionIdFromDatabase after its await (531-537)
DbDeliver ==
    /\ dbq = "answered"
    /\ dbq' = "done"
    /\ lastId' = IF dbRows # <<>> THEN dbRows[1] ELSE lastId
    /\ UNCHANGED <<highest, period, inflight, cycle, dbRows, table, inserting,
                   upserting, handedPrev, handedCur, commits, endKind, asked, feed, fIn, fOut,
                   callbackArgs, handlerPc, report, filterCalls, committed, startPolls>>

\* the column list of the INSERT of _insertConfirmed (481-483)
ReportColumns ==
    <<"contribution_id", "created_at", "disaster_type", "text", "lang", "url",
      "image_url", "title", "the_geom">>

\* the parameter each column's VALUES expression takes (484-494); 0 where the
\* expression has none: $9 stands inside the string literal 'POINT($9'
ColumnParameter == <<1, 2, 3, 4, 5, 6, 7, 8, 0>>

\* the attributes of the report in reportValues, in order (495-505)
ReportValues ==
    <<"contributionId", "date.create.sec", "content", "lang", "url",
      "files.photo", "title", "longitude latitude">>

\* the attribute the query binds to column i
BoundAttribute(i) ==
    LET p == ColumnParameter[i]
    IN  IF p \in 1..Len(ReportValues) THEN ReportValues[p] ELSE "none"

\* the upsert of the author: SELECT detik.upsert_users(md5($1)) (510-511)
UserQuery == [key |-> "md5($1)", values |-> <<"user.creator.id">>]

\* the INSERT of _insertConfirmed resolves; the upsert is sent (507-512)
InsertResolved(id) ==
    /\ id \in inserting
    /\ inserting' = inserting \ {id}
    /\ table' = table \cup {id}
    /\ upserting' = upserting \cup {id}
    /\ UNCHANGED <<lastId, highest, period, inflight, cycle, dbq, dbRows, handedPrev,
                   handedCur, commits, endKind, asked, feed, fIn, fOut,
                   callbackArgs, handlerPc, report, filterCalls, committed, startPolls>>

\* 507-516 with the upsert outside the try block
InsertRejectedUpserts(id) ==
    /\ id \in inserting
    /\ inserting' = inserting \ {id}
    /\ upserting' = upserting \cup {id}
    /\ UNCHANGED <<lastId, highest, period, inflight, cycle, dbq, dbRows, table,
                   handedPrev, handedCur, commits, endKind, asked, feed, fIn, fOut,
                   callbackArgs, handlerPc, report, filterCalls, committed, startPolls>>

\* the INSERT rejects; the catch logs it (507, 514-516)
InsertRejected(id) ==
    /\ id \in inserting
    /\ inserting' = inserting \ {id}
    /\ UNCHANGED <<lastId, highest, period, inflight, cycle, dbq, dbRows, table,
                   upserting, handedPrev, handedCur, commits, endKind, asked, feed, fIn, fOut,
                   callbackArgs, handlerPc, report, filterCalls, committed, startPolls>>

\* the upsert resolves or rejects; either way _insertConfirmed ends (512-516)
UpsertSettled(id) ==
    /\ id \in upserting
    /\ upserting' = upserting \ {id}
    /\ UNCHANGED <<lastId, highest, period, inflight, cycle, dbq, dbRows, table,
                   inserting, handedPrev, handedCur, commits, endKind, asked, feed, fIn, fOut,
                   callbackArgs, handlerPc, report, filterCalls, committed, startPolls>>

PoolNext ==
    \/ \E id \in Ids : InsertResolved(id)
    \/ \E id \in Ids : InsertRejected(id)
    \/ \E id \in Ids : UpsertSettled(id)

Next ==
    \/ Start
    \/ Poll
    \/ \E p \in 1..(MaxPage + 1) : RequestError(p)
    \/ \E p \in 1..(MaxPage + 1) : EndInvalidJson(p)
    \/ \E p \in 1..(MaxPage + 1) : EndNoResults(p)
    \/ \E p \in 1..MaxPage : EndResults(p)
    \/ DbAnswer
    \/ DbDeliver
    \/ PoolNext

Spec == Init /\ [][Next]_vars

\* ------------------------------------------------------- SpecFilter
\* One run of the 'end' callback on a result array, from any values of the two
\* ids and of the retention window, the argument and the outcome recorded.

InitFilter ==
    /\ lastId \in 0..MaxId
    /\ highest \in 0..MaxId
    /\ period \in Periods
    /\ inflight \in {{p} : p \in 1..MaxPage}
    /\ cycle = 1
    /\ dbq = "none"
    /\ dbRows = <<>>
    /\ table = {}
    /\ inserting = {}
    /\ upserting = {}
    /\ handedPrev = {}
    /\ handedCur = {}
    /\ commits = 0
    /\ endKind = "none"
    /\ asked = [i \in 1..SetMax(inflight) |-> i]
    /\ filterCalls = Len(asked) - 1
    /\ committed = -1
    /\ handlerPc = "idle"
    /\ report = NoReport
    /\ callbackArgs = <<>>
    /\ startPolls = 0
    /\ feed = <<>>
    /\ fIn = <<>>
    /\ fOut = NoCall

EndResultsRecorded(p) ==
    /\ ~fOut.called
    /\ p \in inflight
    /\ p <= MaxPage
    /\ EndAny(p, MaxLen, TRUE)

NextFilter == \E p \in 1..MaxPage : EndResultsRecorded(p)

SpecFilter == InitFilter /\ [][NextFilter]_vars

\* --------------------------------------------------------- SpecFeed
\* _poll cycles against a feed whose items stay the same; page p of the feed
\* is its p-th slice of MaxPageLen items.

FeedPage(p) ==
    SubSeq(feed, (p - 1) * MaxPageLen + 1,
           IF p * MaxPageLen < Len(feed) THEN p * MaxPageLen ELSE Len(feed))

InitFeed ==
    /\ lastId = 0
    /\ highest = 0
    /\ period = {1000}
    /\ inflight = {}
    /\ cycle = 0
    /\ dbq = "none"
    /\ dbRows = <<>>
    /\ table = {}
    /\ inserting = {}
    /\ upserting = {}
    /\ handedPrev = {}
    /\ handedCur = {}
    /\ commits = 0
    /\ endKind = "none"
    /\ asked = <<>>
    /\ filterCalls = 0
    /\ committed = -1
    /\ handlerPc = "idle"
    /\ report = NoReport
    /\ callbackArgs = <<>>
    /\ startPolls = 0
    /\ feed \in Feeds
    /\ fIn = <<>>
    /\ fOut = NoCall

\* res.on('end') with the feed's page p, which holds items (354-362)
EndFeedResults(p) ==
    /\ p \in inflight
    /\ FeedPage(p) # <<>>
    /\ \E now \in Clocks :
         \E f \in {FilterResults(FeedPage(p), lastId, highest, now, period)} :
            EndFiltered(p, f)
    /\ UNCHANGED <<fIn, fOut>>

\* res.on('end') with the feed's page p, which is past the last item (347-353)
EndFeedEmpty(p) ==
    /\ FeedPage(p) = <<>>
    /\ EndNoResults(p)

NextFeed ==
    \/ Poll
    \/ \E p \in 1..(MaxId + 1) : RequestError(p)
    \/ \E p \in 1..(MaxId + 1) : EndInvalidJson(p)
    \/ \E p \in 1..(MaxId + 1) : EndFeedEmpty(p)
    \/ \E p \in 1..(MaxId + 1) : EndFeedResults(p)
    \/ PoolNext

SpecFeed == InitFeed /\ [][NextFeed]_vars

\* --------------------------------------------------------- SpecSink
\* One 'end' callback on a result array of a new instance, and the pool
\* settling the queries of _insertConfirmed it started.

InitSink ==
    /\ lastId = 0
    /\ highest = 0
    /\ period = {1000}
    /\ inflight = {1}
    /\ cycle = 1
    /\ dbq = "none"
    /\ dbRows = <<>>
    /\ table = {}
    /\ inserting = {}
    /\ upserting = {}
    /\ handedPrev = {}
    /\ handedCur = {}
    /\ commits = 0
    /\ endKind = "none"
    /\ asked = <<1>>
    /\ filterCalls = 0
    /\ committed = -1
    /\ handlerPc = "idle"
    /\ report = NoReport
    /\ callbackArgs = <<>>
    /\ startPolls = 0
    /\ feed = <<>>
    /\ fIn = <<>>
    /\ fOut = NoCall

NextSink ==
    \/ EndResultsRecorded(1)
    \/ PoolNext

SpecSink == InitSink /\ [][NextSink]_vars

\* ----------------------------------------------------------- SpecDb
\* _updateLastContributionIdFromDatabase called on an instance with any
\* watermark, against any table, while the pool settles INSERTs still pending.

InitDb ==
    /\ lastId \in 0..MaxId
    /\ highest = lastId
    /\ period = {1000}
    /\ inflight = {}
    /\ cycle = 0
    /\ dbq = "none"
    /\ dbRows = <<>>
    /\ table \in SUBSET Ids
    /\ inserting \in SUBSET (Ids \ table)
    /\ upserting = {}
    /\ handedPrev = {}
    /\ handedCur = {}
    /\ commits = 0
    /\ endKind = "none"
    /\ asked = <<>>
    /\ filterCalls = 0
    /\ committed = -1
    /\ handlerPc = "idle"
    /\ report = NoReport
    /\ callbackArgs = <<>>
    /\ startPolls = 0
    /\ feed = <<>>
    /\ fIn = <<>>
    /\ fOut = NoCall

NextDb ==
    \/ DbQuery
    \/ DbAnswer
    \/ DbDeliver
    \/ PoolNext

SpecDb == InitDb /\ [][NextDb]_vars

\* -------------------------------------------------------- SpecTwice
\* The 'end' callback on a result array, the commit of the batch, and in the
\* next cycle the callback on the same array at the same or a later time.

\* res.on('end') of page 1 of the second cycle with the array of the first
EndSameResults ==
    /\ fOut.called
    /\ cycle = 2
    /\ 1 \in inflight
    /\ \E now \in {c \in Clocks : c >= fOut.f.now} :
         \E f \in {FilterResults(fIn, lastId, highest, now, period)} :
            EndFiltered(1, f)
    /\ UNCHANGED <<fIn, fOut>>

\* the first run: the callback of a page of the first cycle
EndFirstResults(p) ==
    /\ cycle = 1
    /\ EndResultsRecorded(p)

\* the page after the first run has no results: the batch is committed
EndAfterFirst(p) ==
    /\ fOut.called
    /\ EndNoResults(p)

NextTwice ==
    \/ \E p \in 1..MaxPage : EndFirstResults(p)
    \/ \E p \in 1..(MaxPage + 1) : EndAfterFirst(p)
    \/ Poll
    \/ EndSameResults

SpecTwice == InitFilter /\ [][NextTwice]_vars

\* --------------------------------------------------------- SpecLoad
\* start() on a new instance against a stored table, the feed answering one
\* page more than MaxPage with results, the pool answering the load at any
\* moment.

\* res.on('end') with a non-empty result list, up to page MaxPage + 1
EndLoadResults(p) ==
    /\ p \in inflight
    /\ p <= MaxPage + 1
    /\ EndAny(p, MaxPageLen, FALSE)

NextLoad ==
    \/ Start
    \/ \E p \in 1..(MaxPage + 1) : EndLoadResults(p)
    \/ DbAnswer
    \/ DbDeliver

SpecLoad == Init /\ [][NextLoad]_vars

\* ---------------------------------------------------- SpecNormalize
\* The statements 463-478 of _insertConfirmed applied to a report object,
\* and applied again to the object they left.

InitNormalize ==
    /\ lastId = 0
    /\ highest = 0
    /\ period = {1000}
    /\ inflight = {}
    /\ cycle = 0
    /\ dbq = "none"
    /\ dbRows = <<>>
    /\ table = {}
    /\ inserting = {}
    /\ upserting = {}
    /\ handedPrev = {}
    /\ handedCur = {}
    /\ commits = 0
    /\ endKind = "none"
    /\ asked = <<>>
    /\ filterCalls = 0
    /\ committed = -1
    /\ handlerPc = "idle"
    /\ callbackArgs = <<>>
    /\ startPolls = 0
    /\ feed = <<>>
    /\ fIn = <<>>
    /\ fOut = NoCall
    /\ report \in {[applied |-> 0, given |-> r, once |-> r, now |-> r] : r \in Reports}

\* 463-478 run on the object
Normalize ==
    /\ report.applied < 2
    /\ report' = [applied |-> report.applied + 1,
                  given |-> report.given,
                  once |-> IF report.applied = 0 THEN Normalized(report.now)
                                                 ELSE report.once,
                  now |-> Normalized(report.now)]
    /\ UNCHANGED <<lastId, highest, period, inflight, cycle, dbq, dbRows, table,
                   inserting, upserting, handedPrev, handedCur, commits, endKind,
                   asked, filterCalls, committed, handlerPc, callbackArgs,
                   startPolls, feed, fIn, fOut>>

NextNormalize == Normalize

SpecNormalize == InitNormalize /\ [][NextNormalize]_vars

\* --------------------------------------------------------- SpecLive
\* _poll cycles against a feed of finitely many items, with every request
\* that was sent being answered in the end: by a response (with the feed's
\* page, or with a body that does not parse) or by an error.

\* some callback of the request for page p runs
Answered(p) ==
    \/ RequestError(p)
    \/ EndInvalidJson(p)
    \/ EndFeedEmpty(p)
    \/ EndFeedResults(p)

NextLive ==
    \/ Poll
    \/ \E p \in 1..(MaxId + 1) : Answered(p)

SpecLive ==
    /\ InitFeed
    /\ [][NextLive]_vars
    /\ WF_vars(\E p \in 1..(MaxId + 1) : Answered(p))

\* ------------------------------------------------------------ claims

\* the retention test as the claims state it, on the window of the call
OlderThanWindow(item, now) == \E p \in period : item.sec * 1000 < now - p

\* an item of the recorded array that neither stop condition applies to
Passes(item) ==
    /\ item.contributionId > fOut.f.last0
    /\ ~OlderThanWindow(item, fOut.f.now)

\* the recorded call reached item i of its array: every earlier item passed
Reached(i) == \A j \in 1..(i - 1) : Passes(fIn[j])

\* number of leading items of the recorded array that pass
LeadPass ==
    CHOOSE k \in 0..Len(fIn) :
        /\ \A j \in 1..k : Passes(fIn[j])
        /\ k = Len(fIn) \/ ~Passes(fIn[k + 1])

\* C1: no contribution id is handed to _processResult in two different poll
\* cycles of one instance.
C1_NoReprocessing == handedPrev \cap handedCur = {}

\* C2: every commit sets _lastContributionId to the maximum of itself and
\* _highestBatchContributionId, and the value of _lastContributionId never
\* decreases over the life of the instance.
C2_WatermarkNeverDecreases ==
    [][/\ lastId' >= lastId
       /\ commits' > commits => lastId' = Max(lastId, highest')]_vars

\* an item no clock value makes older than the retention window
Fresh(item) == \A now \in Clocks : ~OlderThanWindow(item, now)

\* C3: delivery is at-least-once.  An item at or below the watermark is never
\* handed over again, so whenever a cycle has ended, every item of the feed
\* that lies within the retention window and at or below the committed
\* watermark must already have been handed to _processResult.
C3_AtLeastOnce ==
    (cycle >= 1 /\ inflight = {}) =>
        \A i \in 1..Len(feed) :
            (Fresh(feed[i]) /\ feed[i].contributionId <= lastId)
                => feed[i].contributionId \in handedPrev \cup handedCur

\* C4: when _filterResults reaches an item whose id is at or below the
\* watermark it stops there, whatever the item's update time: exactly the
\* items before it were handed over and the call returns false; no handed
\* item has an id at or below the watermark.
C4_SeenBeforeStops ==
    fOut.called =>
        /\ \A i \in 1..Len(fOut.f.handed) :
              fOut.f.handed[i].contributionId > fOut.f.last0
        /\ \A i \in 1..Len(fIn) :
              (Reached(i) /\ fIn[i].contributionId <= fOut.f.last0)
                  => /\ fOut.f.ret = FALSE
                     /\ fOut.f.handed = SubSeq(fIn, 1, i - 1)

C4_Witness ==
    /\ fOut.called
    /\ Len(fIn) = 2
    /\ fIn[1].contributionId <= fOut.f.last0
    /\ ~OlderThanWindow(fIn[1], fOut.f.now)
    /\ fIn[2].contributionId > fOut.f.last0
    /\ fOut.f.handed = <<>>
    /\ fOut.f.ret = FALSE

\* C5: when _filterResults reaches an item above the watermark whose
\* updateTimestamp * 1000 is below now - HISTORICAL_LOAD_PERIOD it stops
\* there: exactly the items before it were handed over and the call returns
\* false.
C5_TooOldStops ==
    fOut.called =>
        \A i \in 1..Len(fIn) :
            (/\ Reached(i)
             /\ fIn[i].contributionId > fOut.f.last0
             /\ OlderThanWindow(fIn[i], fOut.f.now))
                => /\ fOut.f.ret = FALSE
                   /\ fOut.f.handed = SubSeq(fIn, 1, i - 1)

C5_Witness ==
    /\ fOut.called
    /\ Len(fIn) = 2
    /\ fIn[1].contributionId > fOut.f.last0
    /\ OlderThanWindow(fIn[1], fOut.f.now)
    /\ ~OlderThanWindow(fIn[2], fOut.f.now)
    /\ fIn[2].contributionId > fOut.f.last0
    /\ fOut.f.handed = <<>>
    /\ fOut.f.ret = FALSE

\* C6: _filterResults returns true exactly when every item of the page was
\* accepted, and page N+1 is requested if and only if the filter of page N
\* returned true.
C6_ContinueIffAllAccepted ==
    fOut.called =>
        /\ fOut.f.ret <=> (\A i \in 1..Len(fIn) : Passes(fIn[i]))
        /\ fOut.f.ret <=> (fOut.page + 1 \in inflight)
        /\ inflight \subseteq {fOut.page + 1}

C6_Witness ==
    /\ fOut.called
    /\ Len(fIn) = 2
    /\ fOut.f.ret
    /\ inflight = {fOut.page + 1}

\* C7: the accepted items are handed to _processResult once each, in page
\* order, and afterwards _highestBatchContributionId is the maximum of its
\* previous value and the accepted ids.
C7_HandedInOrder ==
    fOut.called =>
        /\ fOut.f.handed = SubSeq(fIn, 1, LeadPass)
        /\ highest = Max(fOut.f.highest0, SetMax(IdsOf(SubSeq(fIn, 1, LeadPass))))

C7_Witness ==
    /\ fOut.called
    /\ Len(fOut.f.handed) = 2
    /\ fOut.f.handed[1].contributionId > fOut.f.handed[2].contributionId
    /\ fOut.f.highest0 = 0
    /\ highest = fOut.f.handed[1].contributionId

\* C8: the committed watermark is 0 or the id of an item whose dispatch
\* succeeded (its row is in the table) or is still under way; the id of an
\* item dropped for lacking coordinates, or whose INSERT failed, never is.
C8_WatermarkOnlyDispatched ==
    lastId = 0 \/ lastId \in table \cup inserting

\* C9: at most one dispatch is in flight at any time, and at a commit no
\* dispatch of an item at or below the new watermark is still pending.
C9_DispatchAwaited ==
    [][/\ Cardinality(inserting' \cup upserting') <= 1
       /\ commits' > commits =>
            \A id \in inserting' \cup upserting' : id > lastId']_vars

\* C10: within a cycle the pages are requested one at a time in the order
\* 1, 2, 3, ...: none is skipped or requested twice, at most one request is
\* outstanding, and it is the request issued last (page N+1 is requested
\* only once the callback of page N has run and its filter returned true).
C10_PagesInOrder ==
    /\ \A i \in 1..Len(asked) : asked[i] = i
    /\ Cardinality(inflight) <= 1
    /\ inflight \subseteq {Len(asked)}
    /\ Len(asked) >= 2 => endKind # "none"

C10_Witness ==
    /\ asked = <<1, 2>>
    /\ inflight = {2}
    /\ endKind = "more"
    /\ handedCur # {}

\* C11: _poll sets _highestBatchContributionId to the value _lastContributionId
\* has when it is called, before any page is fetched, and the first page it
\* requests is page 1 (the only request outstanding, no page filtered yet).
C11_PollStartsAtPageOne ==
    [][cycle' # cycle =>
          /\ cycle' = cycle + 1
          /\ highest' = lastId
          /\ lastId' = lastId
          /\ asked' = <<1>>
          /\ inflight' = {1}
          /\ filterCalls' = 0]_vars

C11_Witness ==
    /\ cycle = 2
    /\ endKind = "none"
    /\ lastId > 0
    /\ highest = lastId
    /\ asked = <<1>>
    /\ inflight = {1}

\* C12: the watermark is committed only when the batch concludes.  A step that
\* leaves a page request of the cycle outstanding leaves _lastContributionId
\* unchanged, and once a cycle has ended (no request outstanding) exactly one
\* commit has been performed in it.
C12_CommitOnlyAtEnd ==
    [][/\ (cycle >= 1 /\ cycle' = cycle /\ inflight' # {}) => lastId' = lastId
       /\ (cycle' >= 1 /\ inflight' = {}) => commits' = 1]_vars

\* C12, the counting half alone: no commit while a request is outstanding and
\* exactly one once the cycle has ended.
CommitCountedOnce ==
    cycle >= 1 => commits = (IF inflight = {} THEN 1 ELSE 0)

\* C13: a page without a result list, or with an empty one, ends the cycle
\* normally: _filterResults has been called for the pages before it only, no
\* request is outstanding or was issued after it, and the commit was executed.
C13_EmptyPageEndsCycle ==
    endKind = "empty" =>
        /\ inflight = {}
        /\ filterCalls = Len(asked) - 1
        /\ commits = 1
        /\ committed >= highest

C13_Witness ==
    /\ endKind = "empty"
    /\ asked = <<1, 2>>
    /\ handedCur # {}
    /\ committed = highest
    /\ committed > 0

\* C14: a transport error on the request for page N ends the cycle:
\* _filterResults is not called for page N, no further request is issued, and
\* the commit leaves the watermark at the maximum of the value it had before
\* and the ids accepted on pages 1..N-1.
C14_RequestErrorEndsCycle ==
    [][(endKind' = "error" /\ commits' # commits) =>
          /\ inflight' = {}
          /\ asked' = asked
          /\ filterCalls' = filterCalls
          /\ filterCalls' = Len(asked') - 1
          /\ commits' = 1
          /\ lastId' = Max(lastId, SetMax(handedCur))]_vars

\* C14 without the value of the watermark: what the error handler does to the
\* requests, and that it commits
RequestErrorStops ==
    endKind = "error" =>
        /\ inflight = {}
        /\ filterCalls = Len(asked) - 1
        /\ commits = 1
        /\ committed >= highest

\* C15: a body for page N that does not parse ends the cycle: _filterResults
\* has been called for pages 1..N-1 only, no further page is requested, and
\* the commit was executed with the _highestBatchContributionId accumulated
\* on those pages (at least every id accepted on them).
C15_InvalidJsonEndsCycle ==
    endKind = "invalid" =>
        /\ inflight = {}
        /\ filterCalls = Len(asked) - 1
        /\ commits = 1
        /\ committed >= highest
        /\ highest >= SetMax(handedCur)

C15_Witness ==
    /\ endKind = "invalid"
    /\ asked = <<1, 2>>
    /\ handedCur # {}
    /\ committed = SetMax(handedCur)

\* C16: when a cycle has ended on a fetch or parse error, the caller of the
\* poll has received a failure signal for it (the handler's callback invoked
\* with the error).
C16_FailureSignalled ==
    endKind \in {"error", "invalid"} =>
        \E i \in 1..Len(callbackArgs) : callbackArgs[i] = "err"

\* C17: when the dispatch of an accepted item fails (its INSERT is rejected),
\* _filterResults has handed no item of that page after the failed one to
\* _processResult: the failed item is the last one it handed over.
C17_DispatchFailureStopsPage ==
    [][\A id \in inserting \ inserting' :
          (table' = table /\ fOut.called) =>
              fOut.f.handed[Len(fOut.f.handed)].contributionId = id]_vars

\* C18: an item whose longitude and latitude are both 0 is never passed to
\* _insertConfirmed: every INSERT the call started belongs to a handed item
\* with a coordinate other than 0.
C18_NullIslandNotDispatched ==
    fOut.called =>
        \A id \in inserting :
            \E i \in 1..Len(fOut.f.handed) :
                /\ fOut.f.handed[i].contributionId = id
                /\ ~(fOut.f.handed[i].lon = 0 /\ fOut.f.handed[i].lat = 0)

C18_Witness ==
    /\ fOut.called
    /\ Len(fOut.f.handed) = 2
    /\ fOut.f.handed[1].lon = 0 /\ fOut.f.handed[1].lat = 0
    /\ fOut.f.handed[2].lon = 1 /\ fOut.f.handed[2].lat = 1
    /\ inserting = {fOut.f.handed[2].contributionId}
    /\ fOut.f.handed[1].contributionId \notin inserting

\* C19: every accepted item that does not have both coordinates equal to 0,
\* one with exactly one coordinate 0 included, is passed to _insertConfirmed.
C19_OnlyNullIslandDropped ==
    fOut.called =>
        \A i \in 1..Len(fOut.f.handed) :
            ~(fOut.f.handed[i].lon = 0 /\ fOut.f.handed[i].lat = 0)
                => fOut.f.handed[i].contributionId \in inserting

\* C20: once an invocation of the handler has nothing left to run (the poll
\* ended, the database answered, no query pending) the handler's callback
\* has been invoked exactly once.
C20_CallbackOnce ==
    (/\ handlerPc # "idle"
     /\ inflight = {}
     /\ dbq = "done"
     /\ inserting = {}
     /\ upserting = {}) => Len(callbackArgs) = 1

\* C21: the query of _updateLastContributionIdFromDatabase is answered with
\* the largest contribution_id of the table, or with no row when the table is
\* empty; with a row the call sets _lastContributionId to it, without one it
\* leaves _lastContributionId as it was, and in both cases it completes.
C21_LoadFromDatabase ==
    [][/\ (dbq = "sent" /\ dbq' = "answered") =>
             dbRows' = (IF table = {} THEN <<>>
                        ELSE <<CHOOSE m \in table : \A t \in table : t <= m>>)
       /\ (dbq = "answered" /\ dbq' # dbq) =>
             /\ dbq' = "done"
             /\ lastId' = (IF dbRows = <<>> THEN lastId ELSE dbRows[1])]_vars

C21_Witness ==
    /\ dbq = "done"
    /\ dbRows = <<>>
    /\ table = {}
    /\ lastId = 1

\* C22: with HISTORICAL_LOAD_PERIOD = 0 no item is accepted, whatever its
\* update time is relative to now.
C22_ZeroPeriodRejectsAll ==
    (fOut.called /\ period = {0}) => fOut.f.handed = <<>>

\* C23: with the default configuration object the retention window is the
\* default one: a call whose first item is unseen and was updated longer ago
\* than the default period hands nothing over and returns false.
C23_DefaultWindowApplies ==
    (/\ fOut.called
     /\ period = ConfigPeriod(DefaultConfig)
     /\ fIn[1].contributionId > fOut.f.last0
     /\ fIn[1].sec * 1000 < fOut.f.now - DefaultConfig.HISTORICA_LOAD_PERIOD)
        => /\ fOut.f.handed = <<>>
           /\ fOut.f.ret = FALSE

\* C24: filtering is idempotent once the watermark has advanced.  When
\* _filterResults has run on an array, the batch has been committed, and
\* _filterResults runs on the same array again, the second run hands no item
\* to _processResult.
C24_SecondRunHandsNothing ==
    (fOut.called /\ cycle = 2) => handedCur = {}

C24_Witness ==
    /\ fOut.called
    /\ Len(fOut.f.handed) = 2
    /\ cycle = 2
    /\ filterCalls = 1
    /\ endKind = "stop"
    /\ handedCur = {}

\* C25: the INSERT binds exactly one value to each of its nine columns, each
\* column receiving the corresponding attribute of the report (contribution
\* id, creation timestamp, disaster type, text, language, URL, image URL,
\* title, point geometry), and a separate upsert keyed by the hash of the
\* author id follows.
C25_InsertBindsEachColumn ==
    inserting # {} =>
        LET expected == <<"contributionId", "date.create.sec", "disaster_type",
                          "content", "lang", "url", "files.photo", "title",
                          "longitude latitude">>
        IN  /\ Len(ReportValues) = Len(ReportColumns)
            /\ \A i \in 1..Len(ReportColumns) : BoundAttribute(i) = expected[i]
            /\ UserQuery = [key |-> "md5($1)", values |-> <<"user.creator.id">>]

\* C26: the load of the watermark from the database completes before the
\* first poll cycle: in the first cycle after start(), no item whose id is at
\* or below the largest stored id is handed to _processResult.
C26_LoadBeforeFirstPoll ==
    (cycle = 1 /\ handlerPc # "idle") =>
        \A id \in handedCur : \A t \in table \ handedCur : id > t

\* C27: _lastContributionId is not modified between the start of a poll
\* cycle and the commit that ends it, under any interleaving of the cycle's
\* callbacks with the load started by start().
C27_WatermarkFixedDuringCycle ==
    [][(cycle >= 1 /\ cycle' = cycle /\ inflight # {} /\ inflight' # {})
         => lastId' = lastId]_vars

\* C28: when _filterResults stops, the commit happens inside the call: after
\* it has returned false _lastContributionId is the largest id accepted so
\* far in the batch, earlier pages included, and not the id of the stopping
\* item or of a later one; when it returns true the call leaves
\* _lastContributionId alone.
C28_StopCommitsAccepted ==
    /\ (endKind = "stop" /\ handedCur # {}) => committed = SetMax(handedCur)
    /\ endKind = "more" => committed = -1

\* C29: for a page with a non-empty result list _fetchResults calls
\* _filterResults exactly once and commits nothing itself, whether the call
\* returns true or false: the only commit is the one the filter makes when it
\* stops.
C29_FetchCallsFilterOnce ==
    fOut.called =>
        /\ filterCalls = fOut.page
        /\ commits = (IF fOut.f.ret THEN 0 ELSE 1)
        /\ commits = fOut.f.commits
        /\ lastId = fOut.f.lastId
        /\ committed = (IF fOut.f.ret THEN -1 ELSE fOut.f.lastId)
        /\ fOut.f.ret => lastId = fOut.f.last0

C29_Witness ==
    /\ fOut.called
    /\ fOut.f.ret
    /\ Len(fOut.f.handed) = 2
    /\ fOut.f.highest > fOut.f.last0
    /\ lastId = fOut.f.last0
    /\ commits = 0

C35_ArrayConsumedFromFront ==
    fOut.called =>
        LET n == Len(fOut.f.handed)
        IN  /\ fOut.f.ret => (fOut.f.rest = <<>> /\ n = Len(fIn))
            /\ ~fOut.f.ret =>
                  /\ n < Len(fIn)
                  /\ fOut.f.rest = SubSeq(fIn, n + 2, Len(fIn))
                  /\ fOut.f.handed = SubSeq(fIn, 1, n)

C35_Witness ==
    /\ fOut.called
    /\ ~fOut.f.ret
    /\ Len(fIn) = 2
    /\ fOut.f.handed = <<>>
    /\ fOut.f.rest = <<fIn[2]>>
    /\ fIn[2].contributionId > fOut.f.last0

\* C32: once _poll has run, _lastContributionId is never above
\* _highestBatchContributionId in any state of the cycle, and right after
\* the commit that ends the cycle the two are equal.
C32_WatermarkAtMostBatch ==
    cycle >= 1 =>
        /\ lastId <= highest
        /\ (inflight = {} /\ commits >= 1) => committed = highest

\* C33: the normalization stamps lang = 'id' and disaster_type = 'flood',
\* sets a missing photo to null, leaves contributionId, the timestamps, the
\* coordinates, title, content and author as they were, and applying it
\* twice gives the same object as applying it once.
C33_NormalizationIdempotent ==
    report.applied >= 1 =>
        /\ report.now.lang = "id"
        /\ report.now.disaster_type = "flood"
        /\ Falsy(report.given.photo) => report.now.photo = Null
        /\ \A k \in {"contributionId", "createSec", "updateSec", "lon", "lat",
                      "title", "content", "creator"} :
               report.now[k] = report.given[k]
        /\ report.applied = 2 => report.now = report.once

\* C33 without the second application: what one run stamps and leaves alone
NormalizationStamps ==
    report.applied >= 1 =>
        /\ report.now.lang = "id"
        /\ report.now.disaster_type = "flood"
        /\ Falsy(report.given.photo) => report.now.photo = Null
        /\ \A k \in {"contributionId", "createSec", "updateSec", "lon", "lat",
                      "title", "content", "creator"} :
               report.now[k] = report.given[k]

\* C34: in _insertConfirmed the upsert of the author is sent only when the
\* INSERT of the report has completed successfully.  When the INSERT fails
\* the upsert for that item is never sent, and the failure is caught: nothing
\* else of the instance changes.
C34_UpsertOnlyAfterInsert ==
    [][/\ upserting' \subseteq table'
       /\ \A id \in Ids :
            /\ (id \in upserting' /\ id \notin upserting) =>
                  (id \in inserting /\ id \notin inserting' /\ id \in table')
            /\ (id \in inserting /\ id \notin inserting' /\ id \notin table') =>
                  /\ upserting' = upserting
                  /\ table' = table
                  /\ <<lastId, highest, inflight, endKind, commits, handlerPc>>'
                       = <<lastId, highest, inflight, endKind, commits, handlerPc>>]_vars

C34_Witness ==
    /\ fOut.called
    /\ Dispatched(fOut.f.handed) = {1, 2}
    /\ inserting = {}
    /\ upserting = {}
    /\ table = {2}

\* C31: every poll cycle terminates.  If every request that was sent is
\* answered by a response or an error, and only finitely many pages hold
\* results, a cycle with a request outstanding leads to a state with no request
\* outstanding in which the commit has run, the cycle having ended on a stop
\* condition, an empty page, a parse error or a fetch error.
C31_CycleTerminates ==
    (inflight # {}) ~>
        (/\ inflight = {}
         /\ commits = 1
         /\ endKind \in {"stop", "empty", "invalid", "error"})

C31_Witness ==
    /\ cycle = 1
    /\ inflight = {}
    /\ commits = 1
    /\ endKind = "empty"
    /\ filterCalls = MaxId
    /\ Len(feed) = MaxId
    /\ Len(asked) = MaxId + 1
    /\ handedCur = Ids
====
